---- MODULE Spec2Model ----
(***************************************************************************)
(* A model of analysis.py: the N-way date aligner (align_data), the random *)
(* window sampler (gen_windows), field extraction (extract_data), the      *)
(* three strategies, the simulation engine (simulate_strategy) and the     *)
(* normalizer (normalize_rows).                                            *)
(*                                                                         *)
(* Python lists are 0-based; sequences here are 1-based, so the element    *)
(* ds[p] of the code is ds[p + 1] below.  Cursors, window indices and      *)
(* dataset numbers keep the code's 0-based values.                         *)
(***************************************************************************)
EXTENDS Integers, Sequences, FiniteSets, TLC

VARIABLES
    all_datasets,   \* align_data: the N input series (each a sequence of dates)
    positions,      \* align_data: one 0-based cursor per series
    aligned,        \* align_data: the rows yielded so far, in order
    align_pc,       \* align_data: "loop" | "matched" | "done" | "IndexError" | "AssertionError"
    iterations,     \* number of loop iterations that did not stop (history)
    num_windows,    \* gen_windows: argument
    window_size,    \* gen_windows: argument
    data_length,    \* gen_windows: argument
    w,              \* gen_windows: windows drawn so far (the loop variable)
    windows,        \* gen_windows: the ranges yielded so far, in order
    gen_pc,         \* gen_windows: "created" | "suspended" | "done" | "ValueError"
    aligned_data,       \* __main__: the aligned rows, each a tuple of N DataRows
    sim_windows,        \* __main__: the windows (ranges) handed to extract and simulate
    selection_strategy, \* simulate_strategy: the strategy argument
    initial_value,      \* simulate_strategy: the initial_value argument
    data_array,         \* __main__ line 145: the extracted field, one list per window
    normalized_array,   \* __main__ line 146: the generator normalize_rows(data_array)
    sim_data_array,     \* __main__ line 151: what simulate_strategy returned
    normalized_sim_data,\* __main__ line 152: the generator normalize_rows(sim_data_array)
    main_pc,            \* __main__: the statement to run next
    day,            \* shifting_sands: argument
    next_day,       \* shifting_sands: argument
    factor,         \* shifting_sands: the value returned
    sands_pc        \* shifting_sands: "called" | "returned"

alignVars == <<all_datasets, positions, aligned, align_pc, iterations>>
genVars == <<num_windows, window_size, data_length, w, windows, gen_pc>>
mainVars == <<aligned_data, sim_windows, selection_strategy, initial_value,
              data_array, normalized_array, sim_data_array, normalized_sim_data,
              main_pc>>
sandsVars == <<day, next_day, factor, sands_pc>>
vars == <<alignVars, genVars, mainVars, sandsVars>>

----------------------------------------------------------------------------
(* Bounds of the aligner's inputs. *)

\* largest number of input series
MaxSeries == 3
\* largest total number of records over all series
MaxRecords == 5
\* dates are the days 1..MaxDate
MaxDate == 3

Dates == 1..MaxDate

RECURSIVE Sum(_)
Sum(lens) == IF lens = <<>> THEN 0 ELSE Head(lens) + Sum(Tail(lens))

\* the series lengths the bounds allow: n series, MaxRecords records in all
LengthTuples(n) == {lens \in [1..n -> 0..MaxRecords] : Sum(lens) <= MaxRecords}

\* the series of the given lengths cut, in order, from one run of dates
Split(flat, lens) ==
    [i \in 1..Len(lens) |->
        [k \in 1..lens[i] |-> flat[Sum(SubSeq(lens, 1, i - 1)) + k]]]

----------------------------------------------------------------------------
(* align_data *)

num_datasets == Len(all_datasets)
data_lengths == [i \in 1..num_datasets |-> Len(all_datasets[i])]

\* a DataRow of series i (1-based) at cursor p (0-based): its date, and where
\* it came from (the identity of the object ds[p])
DataRowAt(i, p) == [date |-> all_datasets[i][p + 1], ds |-> i, row |-> p]

\* (line 45 with > for >=: a cursor at the end is not seen)
PastEndGt(pos, lens) == \E i \in 1..Len(pos) : pos[i] > lens[i]
\* line 45: any([p >= l for (p, l) in zip(positions, data_lengths)])
PastEnd(pos, lens) == \E i \in 1..Len(pos) : pos[i] >= lens[i]

\* line 47: ds[p] is an IndexError when p is outside the list
ReadsInRange(pos, lens) == \A i \in 1..Len(pos) : pos[i] < lens[i]

\* lines 47-48 (only evaluated when every read is in range)
CurrentRows == [i \in 1..num_datasets |-> DataRowAt(i, positions[i])]
CurrentDates == [i \in 1..num_datasets |-> all_datasets[i][positions[i] + 1]]

\* (the loop of lines 55-63 without its second test, date > first_date)
FirstDiffLessOnly(dates) ==
    IF \E i \in 1..Len(dates) : dates[i] < dates[1]
    THEN CHOOSE i \in 1..Len(dates) :
            /\ dates[i] < dates[1]
            /\ \A j \in 1..(i - 1) : ~(dates[j] < dates[1])
    ELSE 0
\* lines 55-63: the (1-based) index at which the loop breaks, the first whose
\* date is earlier or later than dates[0]; 0 when the loop runs to its end
FirstDiff(dates) ==
    IF \E i \in 1..Len(dates) : dates[i] < dates[1] \/ dates[i] > dates[1]
    THEN CHOOSE i \in 1..Len(dates) :
            /\ dates[i] < dates[1] \/ dates[i] > dates[1]
            /\ \A j \in 1..(i - 1) : ~(dates[j] < dates[1] \/ dates[j] > dates[1])
    ELSE 0

\* (lines 60-61 advancing the cursor that is ahead instead of cursor 0)
NudgedCursorSelf(dates, i) == i
\* lines 56-61: the (1-based) cursor the break at index i advances: the
\* cursor itself when its date is earlier, cursor 0 when it is later
NudgedCursor(dates, i) == IF dates[i] < dates[1] THEN i ELSE 1

\* (line 69 advancing cursor 0 alone)
AdvanceFirstOnly(pos) == [i \in 1..Len(pos) |-> IF i = 1 THEN pos[i] + 1 ELSE pos[i]]
\* line 69: positions = [p + 1 for p in positions]
AfterEmit(pos) == [i \in 1..Len(pos) |-> pos[i] + 1]

\* line 68: all([d1 == d2 for d1, d2 in zip(dates, reversed(dates))])
AssertionHolds(dates) ==
    \A i \in 1..Len(dates) : dates[i] = dates[Len(dates) + 1 - i]

\* lines 45-46: a cursor is past the end of its series: break
AlignStop ==
    /\ align_pc = "loop"
    /\ PastEnd(positions, data_lengths)
    /\ align_pc' = "done"
    /\ UNCHANGED <<all_datasets, positions, aligned, iterations>>
    /\ UNCHANGED <<genVars, mainVars, sandsVars>>

\* lines 47-65: read the row under every cursor (an IndexError when a cursor
\* is outside its list) and compare the dates; on a mismatch advance one
\* cursor and continue, otherwise fall through to line 68
AlignCompare ==
    /\ align_pc = "loop"
    /\ ~PastEnd(positions, data_lengths)
    /\ iterations' = iterations + 1
    /\ IF ~ReadsInRange(positions, data_lengths)
       THEN /\ align_pc' = "IndexError"
            /\ UNCHANGED positions
       ELSE IF FirstDiff(CurrentDates) # 0
       THEN /\ LET c == NudgedCursor(CurrentDates, FirstDiff(CurrentDates))
               IN  positions' = [positions EXCEPT ![c] = @ + 1]
            /\ UNCHANGED align_pc
       ELSE /\ align_pc' = "matched"
            /\ UNCHANGED positions
    /\ UNCHANGED <<all_datasets, aligned>>
    /\ UNCHANGED <<genVars, mainVars, sandsVars>>

\* lines 68-70: assert, advance every cursor, yield the row
AlignEmit ==
    /\ align_pc = "matched"
    /\ IF AssertionHolds(CurrentDates)
       THEN /\ positions' = AfterEmit(positions)
            /\ aligned' = Append(aligned, CurrentRows)
            /\ align_pc' = "loop"
       ELSE /\ align_pc' = "AssertionError"
            /\ UNCHANGED <<positions, aligned>>
    /\ UNCHANGED <<all_datasets, iterations>>
    /\ UNCHANGED <<genVars, mainVars, sandsVars>>

----------------------------------------------------------------------------
(* gen_windows *)

\* largest number of windows asked for
MaxWindows == 3
\* largest window size asked for
MaxWindowSize == 4
\* largest length of the sequence the windows index
MaxDataLength == 3

\* range(start, stop): the indices start, ..., stop - 1, in order
RangeIndices(r) == [k \in 1..(IF r.stop > r.start THEN r.stop - r.start ELSE 0) |-> r.start + k - 1]

\* (line 73 without the subtraction)
MaxStartWhole(size, length) == length
\* (line 73 clamped at 0)
MaxStartClamped(size, length) == IF length - size < 0 THEN 0 ELSE length - size
\* line 73: max_start = data_length - window_size
MaxStart(size, length) == length - size

\* line 75: the values random.randint(a, b) can return; none when a > b,
\* where it raises ValueError (empty range)
RandInt(a, b) == a..b

\* line 76: range(start, start + window_size)
WindowAt(start, size) == [start |-> start, stop |-> start + size]

\* lines 73-76, one next() of the generator with a window left to draw: the
\* draw of line 75 raises ValueError on an empty range, otherwise the window
\* is yielded
GenDraw ==
    /\ gen_pc \in {"created", "suspended"}
    /\ w < num_windows
    /\ LET draws == RandInt(0, MaxStart(window_size, data_length))
       IN  IF draws = {}
           THEN /\ gen_pc' = "ValueError"
                /\ UNCHANGED <<w, windows>>
           ELSE \E start \in draws :
                /\ windows' = Append(windows, WindowAt(start, window_size))
                /\ w' = w + 1
                /\ gen_pc' = "suspended"
    /\ UNCHANGED <<num_windows, window_size, data_length>>
    /\ UNCHANGED <<alignVars, mainVars, sandsVars>>

\* line 74, one next() of the generator with the loop exhausted: it returns
GenReturn ==
    /\ gen_pc \in {"created", "suspended"}
    /\ w >= num_windows
    /\ gen_pc' = "done"
    /\ UNCHANGED <<num_windows, window_size, data_length, w, windows>>
    /\ UNCHANGED <<alignVars, mainVars, sandsVars>>

----------------------------------------------------------------------------
(* Prices and curve values: Python's floats, taken as exact rationals.  A  *)
(* rational is <<numerator, denominator>> in lowest terms, denominator > 0. *)

Abs(x) == IF x < 0 THEN -x ELSE x

RECURSIVE GCD(_, _)
GCD(a, b) == IF b = 0 THEN a ELSE GCD(b, a % b)

RatNorm(n, d) ==
    LET g == GCD(Abs(n), Abs(d))
        s == IF d < 0 THEN -1 ELSE 1
    IN  <<(s * n) \div g, Abs(d) \div g>>

RatInt(x) == <<x, 1>>
IsZero(a) == a[1] = 0
\* a < b
RatLess(a, b) == a[1] * b[2] < b[1] * a[2]
\* a * b
RatMul(a, b) == RatNorm(a[1] * b[1], a[2] * b[2])
\* a - b
RatSub(a, b) == RatNorm(a[1] * b[2] - b[1] * a[2], a[2] * b[2])
\* a / b, for b # 0 (Python raises ZeroDivisionError when b = 0)
RatDiv(a, b) == RatNorm(a[1] * b[2], a[2] * b[1])

\* A DataRow, as far as the strategies and extract_data read it: the fields
\* open, high and close (date, low, adj_close and volume are never used in
\* arithmetic).
DataRow(o, h, c) == [open |-> RatInt(o), high |-> RatInt(h), close |-> RatInt(c)]

----------------------------------------------------------------------------
(* extract_data *)

\* lines 78-83: the field of dataset dataset_num at every index of the window
ExtractData(data, dataset_num, field, window) ==
    LET idx == RangeIndices(window)
    IN  [k \in 1..Len(idx) |-> data[idx[k] + 1][dataset_num + 1][field]]

----------------------------------------------------------------------------
(* The strategies *)

\* (lines 85-88 reading dataset 0 whatever dataset_num is)
BuyAndHoldFirstDataset(dataset_num, d, nd) == RatDiv(nd[1].high, d[1].high)
\* lines 85-88
BuyAndHold(dataset_num, d, nd) ==
    RatDiv(nd[dataset_num + 1].high, d[dataset_num + 1].high)

\* lines 90-93
BuyCloseSellOpen(dataset_num, d, nd) ==
    RatDiv(nd[dataset_num + 1].open, d[dataset_num + 1].close)

\* line 97: [stock.close/stock.open for stock in day]
PriceDrops(d) == [i \in 1..Len(d) |-> RatDiv(d[i].close, d[i].open)]

\* line 98: min(list)
MinOf(list) ==
    CHOOSE x \in {list[i] : i \in 1..Len(list)} :
        \A i \in 1..Len(list) : ~RatLess(list[i], x)

\* (line 99 taking the last element equal to x)
IndexLast(list, x) ==
    (CHOOSE i \in 1..Len(list) :
        list[i] = x /\ \A j \in (i + 1)..Len(list) : list[j] # x) - 1
\* line 99: list.index(x), the 0-based index of the first element equal to x
IndexOf(list, x) ==
    (CHOOSE i \in 1..Len(list) :
        list[i] = x /\ \A j \in 1..(i - 1) : list[j] # x) - 1

\* lines 95-102
ShiftingSands(d, nd) ==
    LET price_drops_day1 == PriceDrops(d)
        biggest_drop == MinOf(price_drops_day1)
        worst_stock == IndexOf(price_drops_day1, biggest_drop)
    IN  RatDiv(nd[worst_stock + 1].open, d[worst_stock + 1].close)

\* the call selection_strategy(day, next_day) of lines 115-116
ApplyStrategy(s, d, nd) ==
    CASE s.kind = "buy_and_hold" -> BuyAndHold(s.n, d, nd)
      [] s.kind = "buy_close_sell_open" -> BuyCloseSellOpen(s.n, d, nd)
      [] s.kind = "shifting_sands" -> ShiftingSands(d, nd)

----------------------------------------------------------------------------
(* simulate_strategy *)

\* line 114: zip(window, window[1:]), the pairs of consecutive indices
WindowPairs(window) ==
    LET idx == RangeIndices(window)
    IN  [k \in 1..(IF Len(idx) > 0 THEN Len(idx) - 1 ELSE 0) |-> <<idx[k], idx[k + 1]>>]

\* lines 113-117: the curve of one window
SimulateWindow(data, s, window, init) ==
    LET pairs == WindowPairs(window)
        simulated_data[k \in 1..(Len(pairs) + 1)] ==
            IF k = 1 THEN init
            ELSE RatMul(simulated_data[k - 1],
                        ApplyStrategy(s, data[pairs[k - 1][1] + 1], data[pairs[k - 1][2] + 1]))
    IN  simulated_data

\* lines 109-119
SimulateStrategy(data, s, wins, init) ==
    [j \in 1..Len(wins) |-> SimulateWindow(data, s, wins[j], init)]

----------------------------------------------------------------------------
(* normalize_rows, a generator: one row per next() *)

\* the generator object as created by the call: nothing has run yet
NewGenerator(rows) == [src |-> rows, pos |-> 0, out |-> <<>>, pc |-> "created"]
NoGenerator == [src |-> <<>>, pos |-> 0, out |-> <<>>, pc |-> "idle"]

\* (line 125 without the subtraction: p/first)
NormalizeRowNoSub(row) ==
    [k \in 1..Len(row) |-> RatDiv(row[k], row[1])]
\* lines 124-125: first = row[0]; [(p-first)/first for p in row]
NormalizeRow(row) ==
    [k \in 1..Len(row) |-> RatDiv(RatSub(row[k], row[1]), row[1])]

Resumable(g) == g.pc \in {"created", "suspended"}
\* line 123: the loop has a row left
HasRow(g) == g.pos < Len(g.src)
NextRow(g) == g.src[g.pos + 1]
\* line 124 raises IndexError on an empty row, line 125 ZeroDivisionError
\* when the first element is 0
RowError(row) ==
    IF row = <<>> THEN "IndexError"
    ELSE IF IsZero(row[1]) THEN "ZeroDivisionError"
    ELSE "none"

\* lines 123-125, next() yielding the next row normalized
NormYield(g) ==
    [g EXCEPT !.out = Append(@, NormalizeRow(NextRow(g))),
              !.pos = @ + 1,
              !.pc = "suspended"]
\* lines 124-125, next() raising
NormRaise(g) == [g EXCEPT !.pc = RowError(NextRow(g))]
\* line 123, next() with no row left: the generator returns
NormReturn(g) == [g EXCEPT !.pc = "done"]

----------------------------------------------------------------------------
(* __main__, lines 144-153: extract and simulate over the same windows,    *)
(* normalize both, write both.  write_output (lines 128-132) draws the     *)
(* rows of the generator it is given one by one.                           *)

\* lines 145-146
Extract ==
    /\ main_pc = "extract"
    /\ data_array' = [j \in 1..Len(sim_windows) |->
                        ExtractData(aligned_data, selection_strategy.n, "high", sim_windows[j])]
    /\ normalized_array' = NewGenerator(data_array')
    /\ main_pc' = "write_extracted"
    /\ UNCHANGED <<aligned_data, sim_windows, selection_strategy, initial_value,
                   sim_data_array, normalized_sim_data>>
    /\ UNCHANGED <<alignVars, genVars, sandsVars>>

\* line 147, one row drawn from normalize_rows(data_array) and written
ExtractedYield ==
    /\ main_pc = "write_extracted"
    /\ Resumable(normalized_array) /\ HasRow(normalized_array)
    /\ RowError(NextRow(normalized_array)) = "none"
    /\ normalized_array' = NormYield(normalized_array)
    /\ UNCHANGED <<aligned_data, sim_windows, selection_strategy, initial_value,
                   data_array, sim_data_array, normalized_sim_data, main_pc>>
    /\ UNCHANGED <<alignVars, genVars, sandsVars>>

\* line 147, the draw raises: the run aborts
ExtractedRaise ==
    /\ main_pc = "write_extracted"
    /\ Resumable(normalized_array) /\ HasRow(normalized_array)
    /\ RowError(NextRow(normalized_array)) # "none"
    /\ normalized_array' = NormRaise(normalized_array)
    /\ main_pc' = "aborted"
    /\ UNCHANGED <<aligned_data, sim_windows, selection_strategy, initial_value,
                   data_array, sim_data_array, normalized_sim_data>>
    /\ UNCHANGED <<alignVars, genVars, sandsVars>>

\* line 147, the generator is exhausted: the file is complete
ExtractedReturn ==
    /\ main_pc = "write_extracted"
    /\ Resumable(normalized_array) /\ ~HasRow(normalized_array)
    /\ normalized_array' = NormReturn(normalized_array)
    /\ main_pc' = "simulate"
    /\ UNCHANGED <<aligned_data, sim_windows, selection_strategy, initial_value,
                   data_array, sim_data_array, normalized_sim_data>>
    /\ UNCHANGED <<alignVars, genVars, sandsVars>>

\* lines 150-152
Simulate ==
    /\ main_pc = "simulate"
    /\ sim_data_array' =
          SimulateStrategy(aligned_data, selection_strategy, sim_windows, initial_value)
    /\ normalized_sim_data' = NewGenerator(sim_data_array')
    /\ main_pc' = "write_simulated"
    /\ UNCHANGED <<aligned_data, sim_windows, selection_strategy, initial_value,
                   data_array, normalized_array>>
    /\ UNCHANGED <<alignVars, genVars, sandsVars>>

\* line 153, one row drawn from normalize_rows(sim_data_array) and written
SimulatedYield ==
    /\ main_pc = "write_simulated"
    /\ Resumable(normalized_sim_data) /\ HasRow(normalized_sim_data)
    /\ RowError(NextRow(normalized_sim_data)) = "none"
    /\ normalized_sim_data' = NormYield(normalized_sim_data)
    /\ UNCHANGED <<aligned_data, sim_windows, selection_strategy, initial_value,
                   data_array, normalized_array, sim_data_array, main_pc>>
    /\ UNCHANGED <<alignVars, genVars, sandsVars>>

\* line 153, the draw raises: the run aborts
SimulatedRaise ==
    /\ main_pc = "write_simulated"
    /\ Resumable(normalized_sim_data) /\ HasRow(normalized_sim_data)
    /\ RowError(NextRow(normalized_sim_data)) # "none"
    /\ normalized_sim_data' = NormRaise(normalized_sim_data)
    /\ main_pc' = "aborted"
    /\ UNCHANGED <<aligned_data, sim_windows, selection_strategy, initial_value,
                   data_array, normalized_array, sim_data_array>>
    /\ UNCHANGED <<alignVars, genVars, sandsVars>>

\* line 153, the generator is exhausted: the file is complete
SimulatedReturn ==
    /\ main_pc = "write_simulated"
    /\ Resumable(normalized_sim_data) /\ ~HasRow(normalized_sim_data)
    /\ normalized_sim_data' = NormReturn(normalized_sim_data)
    /\ main_pc' = "written"
    /\ UNCHANGED <<aligned_data, sim_windows, selection_strategy, initial_value,
                   data_array, normalized_array, sim_data_array>>
    /\ UNCHANGED <<alignVars, genVars, sandsVars>>

----------------------------------------------------------------------------
(* One call of shifting_sands *)

SandsCall ==
    /\ sands_pc = "called"
    /\ factor' = ShiftingSands(day, next_day)
    /\ sands_pc' = "returned"
    /\ UNCHANGED <<day, next_day>>
    /\ UNCHANGED <<alignVars, genVars, mainVars>>

----------------------------------------------------------------------------
(* Inputs *)

\* largest number of series in the aligned data
MaxDatasets == 2
\* largest number of aligned rows
MaxRows == 3
\* largest number of DataRows in the aligned data handed to simulate_strategy
\* alone (rows times series)
MaxSimCells == 4
\* prices are 1..MaxPrice
MaxPrice == 2
\* largest number of windows handed to simulate_strategy alone
MaxSimWindows == 2
\* largest number of windows drawn for the run of __main__
MaxRunWindows == 1
\* largest number of DataRows in the aligned data of that run
MaxRunCells == 6
\* largest number of curves handed to normalize_rows alone
MaxCurves == 2
\* largest number of values in those curves, all together
MaxCurveCells == 3
\* the values of those curves are -MaxValue..MaxValue
MaxValue == 1
\* line 110: initial_value = 100.00
DefaultInitialValue == 100

Prices == 1..MaxPrice
Max(a, b) == IF a >= b THEN a ELSE b

\* DataRows with every open and close price; high is the larger of the two
OpenCloseRows == {DataRow(o, Max(o, c), c) : o \in Prices, c \in Prices}
\* DataRows with every high price, over open = close = 1
HighRows == {DataRow(1, h, 1) : h \in Prices}

\* the ranges of the given size inside a sequence of the given length
WindowsOfSize(size, length) == {WindowAt(s, size) : s \in 0..(length - size)}
\* every range inside a sequence of the given length, the empty ones included
WindowsWithin(length) == UNION {WindowsOfSize(size, length) : size \in 0..length}

NoStrategy == [kind |-> "none", n |-> 0]
\* lines 85-102: the strategies there are over n series
Strategies(n) ==
    {[kind |-> k, n |-> i] : k \in {"buy_and_hold", "buy_close_sell_open"}, i \in 0..(n - 1)}
        \cup {[kind |-> "shifting_sands", n |-> 0]}

InitialValues == {RatInt(0), RatInt(1), RatInt(DefaultInitialValue)}

\* the curve lengths the bounds allow: n curves, MaxCurveCells values in all
CurveLengths(n) == {lens \in [1..n -> 0..MaxCurveCells] : Sum(lens) <= MaxCurveCells}
\* Split, with every value made a rational
SplitCurves(flat, lens) ==
    [i \in 1..Len(lens) |->
        [k \in 1..lens[i] |-> RatInt(flat[Sum(SubSeq(lens, 1, i - 1)) + k])]]

----------------------------------------------------------------------------
(* Specifications *)

\* align_data called on any series within the bounds
AlignInit ==
    /\ \E n \in 1..MaxSeries : \E lens \in LengthTuples(n) :
          \E flat \in [1..Sum(lens) -> Dates] : all_datasets = Split(flat, lens)
    /\ positions = [i \in 1..Len(all_datasets) |-> 0]
    /\ aligned = <<>>
    /\ align_pc = "loop"
    /\ iterations = 0
    /\ num_windows = 0
    /\ window_size = 0
    /\ data_length = 0
    /\ w = 0
    /\ windows = <<>>
    /\ gen_pc = "idle"
    /\ aligned_data = <<>>
    /\ sim_windows = <<>>
    /\ selection_strategy = NoStrategy
    /\ initial_value = RatInt(0)
    /\ data_array = <<>>
    /\ normalized_array = NoGenerator
    /\ sim_data_array = <<>>
    /\ normalized_sim_data = NoGenerator
    /\ main_pc = "idle"
    /\ day = <<>>
    /\ next_day = <<>>
    /\ factor = RatInt(0)
    /\ sands_pc = "idle"

AlignNext == AlignStop \/ AlignCompare \/ AlignEmit

SpecAlign == AlignInit /\ [][AlignNext]_vars

\* gen_windows called with any arguments within the bounds; the caller draws
\* as many windows as it likes
GenInit ==
    /\ num_windows \in 0..MaxWindows
    /\ window_size \in 0..MaxWindowSize
    /\ data_length \in 0..MaxDataLength
    /\ w = 0
    /\ windows = <<>>
    /\ gen_pc = "created"
    /\ all_datasets = <<>>
    /\ positions = <<>>
    /\ aligned = <<>>
    /\ align_pc = "idle"
    /\ iterations = 0
    /\ aligned_data = <<>>
    /\ sim_windows = <<>>
    /\ selection_strategy = NoStrategy
    /\ initial_value = RatInt(0)
    /\ data_array = <<>>
    /\ normalized_array = NoGenerator
    /\ sim_data_array = <<>>
    /\ normalized_sim_data = NoGenerator
    /\ main_pc = "idle"
    /\ day = <<>>
    /\ next_day = <<>>
    /\ factor = RatInt(0)
    /\ sands_pc = "idle"

GenNext == GenDraw \/ GenReturn

SpecWindows == GenInit /\ [][GenNext]_vars

\* simulate_strategy called with any strategy on any windows inside the data
SimInit ==
    /\ \E n \in 1..MaxDatasets : \E r \in 0..MaxRows :
          /\ n * r <= MaxSimCells
          /\ aligned_data \in [1..r -> [1..n -> OpenCloseRows]]
          /\ selection_strategy \in Strategies(n)
          /\ \E count \in 0..MaxSimWindows :
                sim_windows \in [1..count -> WindowsWithin(r)]
    /\ initial_value = RatInt(DefaultInitialValue)
    /\ data_array = <<>>
    /\ normalized_array = NoGenerator
    /\ sim_data_array = <<>>
    /\ normalized_sim_data = NoGenerator
    /\ main_pc = "simulate"
    /\ all_datasets = <<>>
    /\ positions = <<>>
    /\ aligned = <<>>
    /\ align_pc = "idle"
    /\ iterations = 0
    /\ num_windows = 0
    /\ window_size = 0
    /\ data_length = 0
    /\ w = 0
    /\ windows = <<>>
    /\ gen_pc = "idle"
    /\ day = <<>>
    /\ next_day = <<>>
    /\ factor = RatInt(0)
    /\ sands_pc = "idle"

SimNext == Simulate

SpecSim == SimInit /\ [][SimNext]_vars

\* lines 144-153 for any dataset number: windows of one size as gen_windows
\* yields them, buy and hold on the dataset whose high is extracted
RunInit ==
    /\ \E n \in 1..MaxDatasets : \E r \in 0..MaxRows :
          /\ n * r <= MaxRunCells
          /\ aligned_data \in [1..r -> [1..n -> HighRows]]
          /\ selection_strategy \in {[kind |-> "buy_and_hold", n |-> i] : i \in 0..(n - 1)}
          /\ \E count \in 0..MaxRunWindows : \E size \in 0..r :
                sim_windows \in [1..count -> WindowsOfSize(size, r)]
    /\ initial_value \in InitialValues
    /\ data_array = <<>>
    /\ normalized_array = NoGenerator
    /\ sim_data_array = <<>>
    /\ normalized_sim_data = NoGenerator
    /\ main_pc = "extract"
    /\ all_datasets = <<>>
    /\ positions = <<>>
    /\ aligned = <<>>
    /\ align_pc = "idle"
    /\ iterations = 0
    /\ num_windows = 0
    /\ window_size = 0
    /\ data_length = 0
    /\ w = 0
    /\ windows = <<>>
    /\ gen_pc = "idle"
    /\ day = <<>>
    /\ next_day = <<>>
    /\ factor = RatInt(0)
    /\ sands_pc = "idle"

RunNext ==
    \/ Extract
    \/ ExtractedYield
    \/ ExtractedRaise
    \/ ExtractedReturn
    \/ Simulate
    \/ SimulatedYield
    \/ SimulatedRaise
    \/ SimulatedReturn

SpecRun == RunInit /\ [][RunNext]_vars

\* normalize_rows called on any curves within the bounds and drawn to its end
NormalizeInit ==
    /\ \E n \in 0..MaxCurves : \E lens \in CurveLengths(n) :
          \E flat \in [1..Sum(lens) -> (-MaxValue)..MaxValue] :
              data_array = SplitCurves(flat, lens)
    /\ normalized_array = NewGenerator(data_array)
    /\ main_pc = "write_extracted"
    /\ aligned_data = <<>>
    /\ sim_windows = <<>>
    /\ selection_strategy = NoStrategy
    /\ initial_value = RatInt(0)
    /\ sim_data_array = <<>>
    /\ normalized_sim_data = NoGenerator
    /\ all_datasets = <<>>
    /\ positions = <<>>
    /\ aligned = <<>>
    /\ align_pc = "idle"
    /\ iterations = 0
    /\ num_windows = 0
    /\ window_size = 0
    /\ data_length = 0
    /\ w = 0
    /\ windows = <<>>
    /\ gen_pc = "idle"
    /\ day = <<>>
    /\ next_day = <<>>
    /\ factor = RatInt(0)
    /\ sands_pc = "idle"

NormalizeNext == ExtractedYield \/ ExtractedRaise \/ ExtractedReturn

SpecNormalize == NormalizeInit /\ [][NormalizeNext]_vars

\* shifting_sands called on any two rows of the same number of series
SandsInit ==
    /\ \E n \in 1..MaxDatasets :
          /\ day \in [1..n -> OpenCloseRows]
          /\ next_day \in [1..n -> OpenCloseRows]
    /\ factor = RatInt(0)
    /\ sands_pc = "called"
    /\ all_datasets = <<>>
    /\ positions = <<>>
    /\ aligned = <<>>
    /\ align_pc = "idle"
    /\ iterations = 0
    /\ num_windows = 0
    /\ window_size = 0
    /\ data_length = 0
    /\ w = 0
    /\ windows = <<>>
    /\ gen_pc = "idle"
    /\ aligned_data = <<>>
    /\ sim_windows = <<>>
    /\ selection_strategy = NoStrategy
    /\ initial_value = RatInt(0)
    /\ data_array = <<>>
    /\ normalized_array = NoGenerator
    /\ sim_data_array = <<>>
    /\ normalized_sim_data = NoGenerator
    /\ main_pc = "idle"

SandsNext == SandsCall

SpecSands == SandsInit /\ [][SandsNext]_vars

----------------------------------------------------------------------------
(* Properties of align_data *)

DateSet(series) == {series[k] : k \in 1..Len(series)}
StrictlyIncreasing(series) ==
    \A k \in 1..(Len(series) - 1) : series[k] < series[k + 1]
NonDecreasing(series) ==
    \A k \in 1..(Len(series) - 1) : series[k] <= series[k + 1]
\* the dates present in every input series
CommonDates ==
    {d \in Dates : \A i \in 1..num_datasets : d \in DateSet(all_datasets[i])}
\* the date of the k-th yielded row (that of its first record)
AlignedDate(k) == aligned[k][1].date
AlignedDates == {AlignedDate(k) : k \in 1..Len(aligned)}
AlignedStrictlyIncreasing ==
    \A k \in 1..(Len(aligned) - 1) : AlignedDate(k) < AlignedDate(k + 1)
TotalRecords == Sum(data_lengths)

\* C1: for any input series (sorted or not, with or without repeated dates)
\* every yielded row holds exactly N records, record i being a record of
\* series i, all carrying one date; the assertion of line 68 never fails.
C1_RowsShareOneDate ==
    /\ align_pc # "AssertionError"
    /\ \A k \in 1..Len(aligned) :
          /\ Len(aligned[k]) = num_datasets
          /\ \A i \in 1..num_datasets :
                /\ aligned[k][i].ds = i
                /\ aligned[k][i].row \in 0..(data_lengths[i] - 1)
                /\ aligned[k][i].date = all_datasets[i][aligned[k][i].row + 1]
                /\ aligned[k][i].date = aligned[k][1].date

\* three series, one of them out of order and one with a repeated date, and
\* a row yielded
C1_Witness ==
    /\ num_datasets = 3
    /\ \E i \in 1..num_datasets : ~NonDecreasing(all_datasets[i])
    /\ \E i \in 1..num_datasets :
          NonDecreasing(all_datasets[i]) /\ ~StrictlyIncreasing(all_datasets[i])
    /\ Len(aligned) = 1

\* C2: when every series is strictly increasing in date, the yielded dates
\* are exactly the dates common to all series: none is skipped, none other
\* is yielded, and the row count is the number of common dates.
C2_ExactlyCommonDates ==
    (\A i \in 1..num_datasets : StrictlyIncreasing(all_datasets[i]))
        => /\ AlignedDates \subseteq CommonDates
           /\ Len(aligned) = Cardinality(AlignedDates)
           /\ align_pc = "done"
                => /\ AlignedDates = CommonDates
                   /\ Len(aligned) = Cardinality(CommonDates)

\* strictly increasing series, one of them missing a day the others share a
\* neighbour of: two common dates are yielded and a third date is dropped
C2_Witness ==
    /\ \A i \in 1..num_datasets : StrictlyIncreasing(all_datasets[i])
    /\ align_pc = "done"
    /\ Len(aligned) = 2
    /\ \E i \in 1..num_datasets : Len(all_datasets[i]) = 3
    /\ \E i \in 1..num_datasets : Len(all_datasets[i]) = 2

\* C3 as stated: for series ordered by non-decreasing date (repeated dates
\* allowed) the yielded dates are strictly increasing.
C3_Original ==
    (\A i \in 1..num_datasets : NonDecreasing(all_datasets[i]))
        => AlignedStrictlyIncreasing

\* C3 amended: for series ordered by non-decreasing date of which at least
\* one has no repeated date, the yielded dates are strictly increasing.
C3_StrictWhenOneSeriesStrict ==
    ( /\ \A i \in 1..num_datasets : NonDecreasing(all_datasets[i])
      /\ \E i \in 1..num_datasets : StrictlyIncreasing(all_datasets[i]) )
        => AlignedStrictlyIncreasing

\* a series with a repeated date beside a strictly increasing one, two rows
C3_Witness ==
    /\ \A i \in 1..num_datasets : NonDecreasing(all_datasets[i])
    /\ \E i \in 1..num_datasets : StrictlyIncreasing(all_datasets[i])
    /\ \E i \in 1..num_datasets : ~StrictlyIncreasing(all_datasets[i])
    /\ Len(aligned) = 2

\* C10, the state part: no cursor passes the end of its series and no row is
\* read at or beyond it; the iterations that did not stop number at most the
\* input records; the rows yielded number at most the shortest series; the
\* loop is never stuck before it stops; it stops with a cursor at the end.
C10_State ==
    /\ align_pc \notin {"IndexError", "AssertionError"}
    /\ \A i \in 1..num_datasets : positions[i] \in 0..data_lengths[i]
    /\ align_pc = "matched" => ReadsInRange(positions, data_lengths)
    /\ iterations <= TotalRecords
    /\ \A i \in 1..num_datasets : Len(aligned) <= data_lengths[i]
    /\ align_pc \in {"loop", "matched"} => ENABLED AlignNext
    /\ align_pc = "done" => \E i \in 1..num_datasets : positions[i] = data_lengths[i]

\* C10, the step part: no step moves a cursor backwards or by more than one;
\* an iteration that ends back at the loop head has advanced a cursor; and
\* with a cursor at the end of its series the only step is the stop.
C10_Step ==
    /\ \A i \in 1..num_datasets : positions'[i] \in {positions[i], positions[i] + 1}
    /\ (align_pc' = "loop" /\ positions' # positions)
         \/ align_pc' # "loop" \/ UNCHANGED vars
    /\ (align_pc = "loop" /\ \E i \in 1..num_datasets : positions[i] >= data_lengths[i])
         => (align_pc' = "done" /\ positions' = positions /\ aligned' = aligned)

\* C10: every iteration that does not stop advances at least one cursor by
\* one and none backwards, no cursor is read at or beyond the end of its
\* series, so for any finite input (repeated or unsorted dates included) the
\* loop stops after at most as many non-stopping iterations as there are
\* input records, as soon as a cursor reaches the end of its series, having
\* yielded at most as many rows as the shortest series has records.
C10_TerminatesWithinRecords == []C10_State /\ [][C10_Step]_vars

\* three series, one out of order, three iterations, a row yielded, stopped
C10_Witness ==
    /\ num_datasets = 3
    /\ \E i \in 1..num_datasets : ~NonDecreasing(all_datasets[i])
    /\ align_pc = "done"
    /\ iterations >= 3
    /\ Len(aligned) >= 1

----------------------------------------------------------------------------
(* Properties of gen_windows *)

\* C4: with 0 <= window_size <= sequence_length, whatever the draws, the
\* generator raises nothing, yields one window per draw and count windows in
\* all, each the contiguous indices start .. start + window_size - 1 with
\* 0 <= start and start + window_size <= sequence_length.
C4_WindowsInBounds ==
    (window_size <= data_length)
        => /\ gen_pc # "ValueError"
           /\ Len(windows) = w
           /\ w <= num_windows
           /\ gen_pc = "done" => Len(windows) = num_windows
           /\ \A j \in 1..Len(windows) :
                LET idx == RangeIndices(windows[j])
                IN  /\ Len(idx) = window_size
                    /\ \A k \in 1..Len(idx) : idx[k] = windows[j].start + k - 1
                    /\ 0 <= windows[j].start
                    /\ windows[j].start + window_size <= data_length
                    /\ windows[j].stop = windows[j].start + window_size

\* three windows drawn, two of them equal and a third overlapping them
C4_Witness ==
    /\ gen_pc = "done"
    /\ num_windows = 3
    /\ window_size = 2
    /\ windows[1] = windows[2]
    /\ windows[3].start = windows[1].start + 1

\* C5 as stated: with window_size > sequence_length sampling fails with a
\* range error and yields no window, for every count, zero included, and
\* however much of the sequence the caller consumes.
C5_Original ==
    (window_size > data_length)
        => /\ windows = <<>>
           /\ gen_pc \in {"created", "ValueError"}

\* C5 amended: with window_size > sequence_length no window is ever yielded;
\* when count >= 1 the first window the caller asks for raises the range
\* error (nothing is raised before the caller asks), and when count = 0 the
\* sequence ends empty without an error.
C5_FailsOnFirstDraw ==
    (window_size > data_length)
        => /\ windows = <<>>
           /\ w = 0
           /\ num_windows >= 1 => gen_pc \in {"created", "ValueError"}
           /\ num_windows = 0 => gen_pc \in {"created", "done"}

\* the range error raised for a window one larger than the sequence
C5_Witness ==
    /\ window_size = data_length + 1
    /\ num_windows = 2
    /\ gen_pc = "ValueError"

----------------------------------------------------------------------------
(* Properties of simulate_strategy, the strategies and normalize_rows *)

\* the rational x is num / den (den # 0), by cross-multiplication
RatIs(x, num, den) == x[1] * den = x[2] * num

\* the curve of window j starts at initial_value and every later element is
\* the one before it times the strategy on the two rows of the step
CurveFollowsWindow(j) ==
    LET idx == RangeIndices(sim_windows[j])
        curve == sim_data_array[j]
    IN  /\ curve[1] = initial_value
        /\ \A k \in 1..(Len(idx) - 1) :
              curve[k + 1] = RatMul(curve[k],
                                    ApplyStrategy(selection_strategy,
                                                  aligned_data[idx[k] + 1],
                                                  aligned_data[idx[k + 1] + 1]))

\* C6 as stated: simulate_strategy returns one curve per window, in the
\* order of the windows; for every window, the empty one included, the curve
\* is as long as the window; for a non-empty window it starts at
\* initial_value and each later element is the previous one times the
\* strategy on the corresponding consecutive rows.
C6_Original ==
    main_pc = "write_simulated"
        => /\ Len(sim_data_array) = Len(sim_windows)
           /\ \A j \in 1..Len(sim_windows) :
                /\ Len(sim_data_array[j]) = Len(RangeIndices(sim_windows[j]))
                /\ Len(RangeIndices(sim_windows[j])) > 0 => CurveFollowsWindow(j)

\* What simulate_strategy does return: one curve per window, in order, as
\* long as the window when the window is not empty and of the single element
\* initial_value when it is.
SimulateCurves ==
    main_pc = "write_simulated"
        => /\ Len(sim_data_array) = Len(sim_windows)
           /\ \A j \in 1..Len(sim_windows) :
                /\ CurveFollowsWindow(j)
                /\ Len(sim_data_array[j]) =
                      Max(1, Len(RangeIndices(sim_windows[j])))

\* the high of the run's dataset at the k-th index of window j
HighAt(j, k) ==
    aligned_data[RangeIndices(sim_windows[j])[k] + 1][selection_strategy.n + 1].high[1]

\* row j of a normalized output is the percentage curve of the highs of
\* window j: (high[k] - high[0]) / high[0] at every position k
IsHighPercentages(row, j) ==
    /\ Len(row) = Len(RangeIndices(sim_windows[j]))
    /\ \A k \in 1..Len(row) : RatIs(row[k], HighAt(j, k) - HighAt(j, 1), HighAt(j, 1))

NormalizedAlike ==
    /\ normalized_array.pc \notin {"IndexError", "ZeroDivisionError"}
    /\ normalized_sim_data.pc \notin {"IndexError", "ZeroDivisionError"}
    /\ main_pc # "aborted"
    /\ \A j \in 1..Len(normalized_array.out) :
          IsHighPercentages(normalized_array.out[j], j)
    /\ \A j \in 1..Len(normalized_sim_data.out) :
          /\ IsHighPercentages(normalized_sim_data.out[j], j)
          /\ normalized_sim_data.out[j] = normalized_array.out[j]
    /\ main_pc = "written"
          => /\ Len(normalized_array.out) = Len(sim_windows)
             /\ Len(normalized_sim_data.out) = Len(sim_windows)

NonEmptyWindows ==
    \A j \in 1..Len(sim_windows) : Len(RangeIndices(sim_windows[j])) > 0

\* C7 as stated: over positive highs, for every dataset number and non-empty
\* window inside the data, the normalized simulation of buy and hold and the
\* normalized extracted highs are the same curve, (high[k] - high[0]) /
\* high[0] at every k, whatever initial_value is.
C7_Original == NonEmptyWindows => NormalizedAlike

\* C7 amended: the same, for every initial_value other than zero.
C7_SimulationMatchesExtract ==
    (NonEmptyWindows /\ ~IsZero(initial_value)) => NormalizedAlike

\* both files written for a window of three rows on the second of two series
\* whose highs differ from the first's and move both up and down
C7_Witness ==
    /\ main_pc = "written"
    /\ Len(sim_windows) = 1
    /\ Len(RangeIndices(sim_windows[1])) = 3
    /\ selection_strategy.n = 1
    /\ initial_value = RatInt(DefaultInitialValue)
    /\ HighAt(1, 1) < HighAt(1, 2) /\ HighAt(1, 3) < HighAt(1, 2)
    /\ \E r \in 1..Len(aligned_data) : aligned_data[r][1].high # aligned_data[r][2].high

\* series i (1-based) of the day has the lowest close/open ratio, and no
\* series before it has a ratio as low
IsWorstStock(i) ==
    /\ \A j \in 1..Len(day) :
          day[i].close[1] * day[j].open[1] <= day[j].close[1] * day[i].open[1]
    /\ \A j \in 1..(i - 1) :
          day[i].close[1] * day[j].open[1] < day[j].close[1] * day[i].open[1]

\* C8: over positive prices shifting_sands returns next_day[w].open /
\* day[w].close for w the lowest index whose close/open ratio of `day` is
\* the minimum over all series; w is a function of `day` alone.
C8_LowestIndexOfMinimum ==
    sands_pc = "returned"
        => \E i \in 1..Len(day) :
              /\ IsWorstStock(i)
              /\ RatIs(factor, next_day[i].open[1], day[i].close[1])

\* two series tie for the minimum ratio and would give different factors
C8_Witness ==
    /\ sands_pc = "returned"
    /\ Len(day) = 2
    /\ day[1].close[1] * day[2].open[1] = day[2].close[1] * day[1].open[1]
    /\ next_day[1].open[1] * day[2].close[1] # next_day[2].open[1] * day[1].close[1]

\* the rows normalize_rows has yielded, and how it stopped
C9_RowsYielded ==
    LET g == normalized_array
    IN  /\ Len(g.out) = g.pos
        /\ g.src = data_array
        /\ \A j \in 1..Len(g.out) :
              LET curve == data_array[j]
              IN  /\ Len(g.out[j]) = Len(curve)
                  /\ Len(curve) > 0
                  /\ ~IsZero(curve[1])
                  /\ IsZero(g.out[j][1])
                  /\ \A k \in 1..Len(curve) :
                        RatIs(g.out[j][k],
                              (curve[k][1] * curve[1][2] - curve[1][1] * curve[k][2]) * curve[1][2],
                              curve[k][2] * curve[1][2] * curve[1][1])
        /\ g.pc = "ZeroDivisionError"
              <=> ( /\ ~Resumable(g)
                    /\ g.pos < Len(data_array)
                    /\ data_array[g.pos + 1] # <<>>
                    /\ IsZero(data_array[g.pos + 1][1]) )
        /\ g.pc = "IndexError" => (g.pos < Len(data_array) /\ data_array[g.pos + 1] = <<>>)
        /\ g.pc = "done" => g.pos = Len(data_array)

\* C9: every row normalize_rows yields is as long as its curve, a non-empty
\* curve with a non-zero first element, and holds (curve[k] - curve[0]) /
\* curve[0] at every k, so 0 at k = 0; a curve whose first element is 0
\* yields nothing and raises ZeroDivisionError; every curve before the first
\* one that raises is yielded.
C9_NormalizedRows ==
    /\ C9_RowsYielded
    /\ Resumable(normalized_array) => ENABLED NormalizeNext

\* a curve starting below zero normalized to a non-zero percentage, then a
\* curve starting at 0 raising
C9_Witness ==
    /\ normalized_array.pc = "ZeroDivisionError"
    /\ Len(normalized_array.out) = 1
    /\ Len(data_array[1]) = 2
    /\ data_array[1][1][1] < 0
    /\ ~IsZero(normalized_array.out[1][2])

====
